---- MODULE Spec2Model ----
(***************************************************************************)
(* A model of async-httype: the stream primitives of src/utils.rs          *)
(* (has_sequence, read_head, read_headers, read_chunked_stream,            *)
(* read_sized_stream, relay_chunked_stream, relay_sized_stream), the       *)
(* entities built on them,                                                 *)
(* Body (src/body.rs) and Relay (src/relay.rs), and the message heads,     *)
(* Request (src/request.rs) and Response (src/response.rs).                *)
(*                                                                         *)
(* A task owns one entity and calls its operations one at a time.          *)
(*                                                                         *)
(* A String is the sequence of its chars, a char its code; the texts of    *)
(* the model are ASCII, where chars and bytes are the same.                *)
(* Bytes are their ASCII codes.  A stream is a record [data, end]: the     *)
(* bytes still to be delivered, and what a read reports once they are      *)
(* used up ("eof": Ok(0); "err": an Err of the transport).  The output     *)
(* sink takes every byte it is handed by a write (the in-memory sinks of   *)
(* the crate's users do); the count a write returns is not looked at by    *)
(* the relay code.                                                         *)
(***************************************************************************)
EXTENDS Integers, Sequences, FiniteSets, TLC

VARIABLES
    entity,     \* what this task owns: "Body", "Relay", "Request", "Response", or "Head"
                \* (a stream whose head it reads)
    parts,      \* the Vec<String> read_head is given: the tokens of the start-line
    mapping,    \* the HashMap<String, String> a call is given: read_headers fills it,
                \* Body::read and Relay::relay look the framing up in it
    scan,       \* the slices has_sequence is given, and what it returned
    request,    \* Request { method, uri, version, headers, length, length_limit, lines }
    response,   \* Response { status_code, status_message, version, headers, length, length_limit, lines }
    body,       \* Body { bytes, length, length_limit }
    relay,      \* Relay { length, length_limit }
    input,      \* the input stream handed to the call: what is still unread
    call,       \* the call in flight, or the last one: its arguments as they were at entry
    output,     \* the bytes the output sink has been handed
    flushed,    \* how many bytes of output have been flushed
    frame,      \* the locals of the call in flight, and where it stands
    result,     \* what the call gave back, once it has returned
    calls       \* how many stream calls the task has made

vars == <<entity, parts, mapping, scan, request, response, body, relay, input, call,
          output, flushed, frame, result, calls>>

----------------------------------------------------------------------------
(* Bounds of the model. *)

\* The most payload bytes a body carries; ceilings range over 0..MaxBody.
MaxBody == 2
\* The most stream calls a task makes on its entity.
MaxCalls == 2
\* The most operations a task calls on its message.
MaxOps == 5
\* The most header lines a header block carries.
MaxPairs == 2
\* The most bytes has_sequence is given to search in.
MaxScan == 4

----------------------------------------------------------------------------
(* Program constants. *)

CR == 13
LF == 10
Zero == 48
WindowSize == 1024
TailSize == 5
CrlfSize == 2
HeadLimit == 265
Colon == 58
SP == 32

\* usize arithmetic is modulo 2^64 and a Vec holds at most isize::MAX bytes.
\* TLC's integers are 32 bits wide, so the model keeps the wrap-around at
\* 2^30: every length of the model is far below it.
UsizeModulus == 2^30
IsizeMax == (2^30 \div 2) - 1

----------------------------------------------------------------------------
(* Option<usize>, Result<usize, Error>. *)

None == [some |-> FALSE, v |-> 0]
Some(n) == [some |-> TRUE, v |-> n]

NoResult == [op |-> "none", kind |-> "none", val |-> 0, err |-> "", arg |-> 0]
Ok(op, n) == [op |-> op, kind |-> "ok", val |-> n, err |-> "", arg |-> 0]
Err(op, e, a) == [op |-> op, kind |-> "err", val |-> 0, err |-> e, arg |-> a]
Panic(op) == [op |-> op, kind |-> "panic", val |-> 0, err |-> "", arg |-> 0]

----------------------------------------------------------------------------
(* Sequences. *)

Take(s, n) == SubSeq(s, 1, n)
Drop(s, n) == SubSeq(s, n + 1, Len(s))
Min(a, b) == IF a < b THEN a ELSE b
IsPrefix(p, s) == Len(p) <= Len(s) /\ Take(s, Len(p)) = p

----------------------------------------------------------------------------
(* str and String: contains, split, splitn, join, format!, parse. *)

CRLF == <<CR, LF>>

\* Where the first match of pat at or after position i of text begins; 0 when there is none.
RECURSIVE Find(_, _, _)
Find(text, pat, i) ==
    IF i + Len(pat) - 1 > Len(text) THEN 0
    ELSE IF SubSeq(text, i, i + Len(pat) - 1) = pat THEN i
    ELSE Find(text, pat, i + 1)

\* str::contains
Contains(text, pat) == Find(text, pat, 1) # 0

\* str::splitn(n, pat), n >= 1: at most n pieces, the last one the rest of the text.
RECURSIVE SplitN(_, _, _)
SplitN(n, text, pat) ==
    LET at == Find(text, pat, 1)
    IN  IF n = 1 \/ at = 0 THEN <<text>>
        ELSE <<Take(text, at - 1)>> \o SplitN(n - 1, Drop(text, at + Len(pat) - 1), pat)

\* str::split(pat)
Split(text, pat) == SplitN(Len(text) + 1, text, pat)

\* [String]::join(sep)
RECURSIVE Join(_, _)
Join(lines, sep) ==
    IF lines = <<>> THEN <<>>
    ELSE IF Len(lines) = 1 THEN lines[1]
    ELSE lines[1] \o sep \o Join(Tail(lines), sep)

\* format!("{}", n) of a usize: its decimal digits.
RECURSIVE FormatUsize(_)
FormatUsize(n) ==
    IF n < 10 THEN <<Zero + n>> ELSE Append(FormatUsize(n \div 10), Zero + (n % 10))

IsDigit(c) == c >= Zero /\ c <= Zero + 9

RECURSIVE DigitsValue(_)
DigitsValue(ds) ==
    IF ds = <<>> THEN 0 ELSE DigitsValue(Take(ds, Len(ds) - 1)) * 10 + (ds[Len(ds)] - Zero)

\* str::parse::<usize>: decimal digits, after one '+' at most; none is an
\* error, as is a number that does not fit a usize. [ok, v].
ParseUsize(text) ==
    LET ds == IF text # <<>> /\ text[1] = 43 THEN Tail(text) ELSE text
    IN  IF ds = <<>> \/ (\E i \in 1..Len(ds) : ~IsDigit(ds[i])) \/ Len(ds) > 9
        THEN [ok |-> FALSE, v |-> 0]
        ELSE [ok |-> TRUE, v |-> DigitsValue(ds)]

\* Every order a HashMap may hand out the keys of a map in.
Orders(keys) ==
    {o \in [1..Cardinality(keys) -> keys] : \A i, j \in DOMAIN o : i # j => o[i] # o[j]}

\* HashMap::insert, HashMap::remove, HashMap::new
Insert(map, name, value) ==
    [n \in DOMAIN map \cup {name} |-> IF n = name THEN value ELSE map[n]]
Remove(map, name) == [n \in DOMAIN map \ {name} |-> map[n]]
EmptyMap == [n \in {} |-> <<>>]

NoString == [some |-> FALSE, v |-> <<>>]

\* The texts of the model.
GET == <<71, 69, 84>>
Root == <<47>>
Version10 == <<49, 46, 48>>
Version11 == <<49, 46, 49>>
Http == <<72, 84, 84, 80, 47>>
OK == <<79, 75>>
ColonSpace == <<58, SP>>
StatusCodes == {200}
Methods == {GET}
Uris == {Root}
Versions == {Version11}
StatusMessages == {OK}
HeaderNames == {<<72>>, <<75>>}
HeaderValues == {<<86>>}

\* What a Request's read_string is given, besides what to_string makes: a
\* head with a header, a head of one token, and a text with no line end.
RequestTexts ==
    {GET \o <<SP>> \o Root \o <<SP>> \o Http \o Version11 \o CRLF
        \o <<72>> \o ColonSpace \o <<86>> \o CRLF \o CRLF,
     GET \o CRLF,
     GET \o <<SP>> \o Root}

\* The same for a Response.
ResponseTexts ==
    {Http \o Version11 \o <<SP>> \o FormatUsize(200) \o <<SP>> \o OK \o CRLF
        \o <<72>> \o ColonSpace \o <<86>> \o CRLF \o CRLF,
     Http \o Version11 \o CRLF,
     Http \o Version11 \o <<SP>> \o FormatUsize(200)}

\* The ceilings a message is given: one that admits no text, one that admits one.
MessageLimits == {0, 32}

----------------------------------------------------------------------------
(* The streams the calls are given. *)

\* Payload bytes 'x', 'y', 'z', by position in the body.
DataByte(i) == 120 + (i % 3)

\* A chunk size below 10 as its one hex digit.
HexDigit(n) == Zero + n

Terminator == <<Zero, CR, LF, CR, LF>>

RECURSIVE SumTo(_, _)
SumTo(cs, k) == IF k = 0 THEN 0 ELSE SumTo(cs, k - 1) + cs[k]

Sum(cs) == SumTo(cs, Len(cs))

\* The payload of the first k chunks of a body whose chunks have the sizes cs.
PayloadTo(cs, k) == [i \in 1..SumTo(cs, k) |-> DataByte(i)]

Payload(cs) == PayloadTo(cs, Len(cs))

RECURSIVE EncodeTo(_, _)
EncodeTo(cs, k) ==
    IF k = 0 THEN <<>>
    ELSE EncodeTo(cs, k - 1) \o <<HexDigit(cs[k]), CR, LF>>
         \o [i \in 1..cs[k] |-> DataByte(SumTo(cs, k - 1) + i)] \o <<CR, LF>>

\* The wire form of a chunked body: hex-size CRLF data CRLF per chunk, then "0\r\n\r\n".
Encode(cs) == EncodeTo(cs, Len(cs)) \o Terminator

\* The chunk sizes of the bodies: every way of cutting up to MaxBody bytes into chunks.
ChunkLists ==
    {cs \in UNION {[1..n -> 1..MaxBody] : n \in 0..MaxBody} : Sum(cs) <= MaxBody}

WellFormed == {Encode(cs) : cs \in ChunkLists}

\* A body followed by the first byte of the next message ('G').
Pipelined == {w \o <<71>> : w \in WellFormed}

\* Frames no encoder produces: a bare LF, CR CR, a size that is no hex
\* number ("x"), an empty size line, a negative size ("-1").
Malformed == {<<LF>>, <<CR, CR>>, <<120, CR, LF>>, <<CR, LF>>, <<45, 49, CR, LF, 120>>}

\* The streams a chunked call is given. The peer may end any of them early
\* while the call is in flight (Cuts).
Streams == {[data |-> d, end |-> "eof"] : d \in WellFormed \cup Pipelined \cup Malformed}

Ends == {"eof", "err"}

\* The streams a sized call is given: n bytes of payload, then the end.
RawStreams ==
    {[data |-> [i \in 1..n |-> DataByte(i)], end |-> e] :
        n \in 0..(MaxBody + 1), e \in {"eof", "err"}}

\* The stream a sized relay is given; the peer may end it early (Cuts).
LongRawStreams == {s \in RawStreams : Len(s.data) = MaxBody + 1 /\ s.end = "eof"}

Closed == [data |-> <<>>, end |-> "eof"]

Advance(stream, n) == [stream EXCEPT !.data = Drop(stream.data, n)]

Max(a, b) == IF a > b THEN a ELSE b

\* What a step that is about to take n bytes off the stream may find there:
\* the stream, or the stream ended by the peer (cleanly, or by an error of
\* the transport) before the step has its n bytes. A later end is found by a
\* later step.
Cuts(stream, n) ==
    {stream} \cup
    {[data |-> Take(stream.data, k), end |-> e] :
        k \in 0..Max(0, Min(n, Len(stream.data)) - 1), e \in Ends}

\* The stream a call was given, as it turns out when a step finds `seen`
\* where `unread` was still to come.
AsSeen(given, unread, seen) ==
    IF seen = unread THEN given
    ELSE [data |-> Take(given.data, Len(given.data) - Len(unread.data)) \o seen.data,
          end |-> seen.end]

----------------------------------------------------------------------------
(* usize arithmetic: what the build does on overflow. A build with overflow *)
(* checks ("debug") panics, one without ("release") wraps.                  *)

Builds == {"debug", "release"}

\* a - b on usize: [panic, v].
UsizeSub(b, x, y) ==
    IF x >= y THEN [panic |-> FALSE, v |-> x - y]
    ELSE IF b = "debug" THEN [panic |-> TRUE, v |-> 0]
    ELSE [panic |-> FALSE, v |-> x - y + UsizeModulus]

\* a + b on usize: [panic, v].
UsizeAdd(b, x, y) ==
    IF x + y < UsizeModulus THEN [panic |-> FALSE, v |-> x + y]
    ELSE IF b = "debug" THEN [panic |-> TRUE, v |-> 0]
    ELSE [panic |-> FALSE, v |-> x + y - UsizeModulus]

----------------------------------------------------------------------------
(* src/utils.rs *)

\* i64::from_str_radix(text, 16): an optional sign, then one or more hex digits.
HexValue(c) ==
    IF c >= 48 /\ c <= 57 THEN c - 48
    ELSE IF c >= 97 /\ c <= 102 THEN c - 87
    ELSE IF c >= 65 /\ c <= 70 THEN c - 55
    ELSE 16

RECURSIVE HexMagnitude(_)
HexMagnitude(ds) ==
    IF ds = <<>> THEN 0
    ELSE 16 * HexMagnitude(Take(ds, Len(ds) - 1)) + HexValue(ds[Len(ds)])

FromStrRadix16(text) ==
    LET signed == text # <<>> /\ text[1] \in {43, 45}
        digits == IF signed THEN Drop(text, 1) ELSE text
    IN  IF digits = <<>> \/ \E i \in 1..Len(digits) : HexValue(digits[i]) = 16
        THEN [ok |-> FALSE, v |-> 0]
        ELSE [ok |-> TRUE,
              v |-> IF signed /\ text[1] = 45 THEN 0 - HexMagnitude(digits)
                    ELSE HexMagnitude(digits)]

\* `length as usize` of an i64.
AsUsize(n) == IF n < 0 THEN n + UsizeModulus ELSE n

\* stream.read(&mut buf) with a buffer of n bytes: the sizes it may return.
\* A read delivers at least one byte while there is one, 0 at end of stream.
ReadSizes(stream, n) ==
    IF stream.data = <<>> THEN {0} ELSE 1..Min(n, Len(stream.data))

ReadFails(stream) == stream.data = <<>> /\ stream.end = "err"

\* read_sized_stream: [kind, err, source, stream]. A Vec of more than
\* isize::MAX bytes cannot be made: vec! panics.
ReadSizedStreamAppendsFirst(stream, source, length) ==
    IF length > IsizeMax
    THEN [kind |-> "panic", err |-> "", source |-> source, stream |-> stream]
    ELSE IF Len(stream.data) >= length
    THEN [kind |-> "ok", err |-> "",
          source |-> source \o Take(stream.data, length),
          stream |-> Advance(stream, length)]
    ELSE [kind |-> "err", err |-> "StreamNotReadable",
          source |-> source \o stream.data,
          stream |-> Advance(stream, Len(stream.data))]

ReadSizedStream(stream, source, length) ==
    IF length > IsizeMax
    THEN [kind |-> "panic", err |-> "", source |-> source, stream |-> stream]
    ELSE IF Len(stream.data) >= length
    THEN [kind |-> "ok", err |-> "",
          source |-> source \o Take(stream.data, length),
          stream |-> Advance(stream, length)]
    ELSE [kind |-> "err", err |-> "StreamNotReadable",
          source |-> source,
          stream |-> Advance(stream, Len(stream.data))]

\* read_chunked_stream, the limit test of one chunk: whether the chunk would
\* take the running total over the limit. [panic, over].
ChunkOverLimitOffByOne(b, limit, total, length) ==
    IF ~limit.some THEN [panic |-> FALSE, over |-> FALSE]
    ELSE LET sum == UsizeAdd(b, total, length)
         IN  [panic |-> sum.panic, over |-> ~sum.panic /\ sum.v > limit.v + 1]

ChunkOverLimit(b, limit, total, length) ==
    IF ~limit.some THEN [panic |-> FALSE, over |-> FALSE]
    ELSE LET sum == UsizeAdd(b, total, length)
         IN  [panic |-> sum.panic, over |-> ~sum.panic /\ sum.v > limit.v]

\* What one turn of read_chunked_stream's loop gives: the call goes on
\* (ret = FALSE) or returns res; the locals, the stream and the accumulator after it.
Turn(ret, res, stage, buffer, total, stream, source) ==
    [ret |-> ret, res |-> res, stage |-> stage, buffer |-> buffer,
     total |-> total, stream |-> stream, source |-> source]

\* read_chunked_stream, a size line just read (the LF of stage 1): the chunk it announces.
ReadChunkKeepsCrlf(b, op, fr, stream, source) ==
    LET parsed == FromStrRadix16(fr.buffer)
        length == AsUsize(parsed.v)
        over == ChunkOverLimit(b, fr.limit, fr.total, length)
        data == ReadSizedStream(stream, source, length)
        crlf == ReadSizedStream(data.stream, data.source, CrlfSize)
        Return(res, s, src) == Turn(TRUE, res, fr.stage, fr.buffer, fr.total, s, src)
    IN  IF ~parsed.ok THEN Return(Err(op, "InvalidData", 0), stream, source)
        ELSE IF length = 0 THEN Return(Ok(op, fr.total), stream, source)
        ELSE IF over.panic THEN Return(Panic(op), stream, source)
        ELSE IF over.over
        THEN Return(Err(op, "SizeLimitExceeded", fr.limit.v), stream, source)
        ELSE IF data.kind = "panic" THEN Return(Panic(op), stream, source)
        ELSE IF data.kind = "err"
        THEN Return(Err(op, data.err, 0), data.stream, data.source)
        ELSE IF crlf.kind = "err"
        THEN Return(Err(op, crlf.err, 0), crlf.stream, data.source)
        ELSE Turn(FALSE, NoResult, 0, <<>>, fr.total + length, crlf.stream, crlf.source)

ReadChunk(b, op, fr, stream, source) ==
    LET parsed == FromStrRadix16(fr.buffer)
        length == AsUsize(parsed.v)
        over == ChunkOverLimit(b, fr.limit, fr.total, length)
        data == ReadSizedStream(stream, source, length)
        crlf == ReadSizedStream(data.stream, <<>>, CrlfSize)
        Return(res, s, src) == Turn(TRUE, res, fr.stage, fr.buffer, fr.total, s, src)
    IN  IF ~parsed.ok THEN Return(Err(op, "InvalidData", 0), stream, source)
        ELSE IF length = 0 THEN Return(Ok(op, fr.total), stream, source)
        ELSE IF over.panic THEN Return(Panic(op), stream, source)
        ELSE IF over.over
        THEN Return(Err(op, "SizeLimitExceeded", fr.limit.v), stream, source)
        ELSE IF data.kind = "panic" THEN Return(Panic(op), stream, source)
        ELSE IF data.kind = "err"
        THEN Return(Err(op, data.err, 0), data.stream, data.source)
        ELSE IF crlf.kind = "err"
        THEN Return(Err(op, crlf.err, 0), crlf.stream, data.source)
        ELSE Turn(FALSE, NoResult, 0, <<>>, fr.total + length, crlf.stream, data.source)

\* read_chunked_stream, one turn of its loop: a read of one byte and what it leads to.
ReadChunkedTurn(b, op, fr, stream, source) ==
    LET byte == stream.data[1]
        rest == Advance(stream, 1)
        Return(res, s) == Turn(TRUE, res, fr.stage, fr.buffer, fr.total, s, source)
        Continue(stage, buffer) == Turn(FALSE, NoResult, stage, buffer, fr.total, rest, source)
    IN  IF ReadFails(stream) THEN Return(Err(op, "StreamNotReadable", 0), stream)
        ELSE IF stream.data = <<>> THEN Return(Ok(op, fr.total), stream)
        ELSE IF byte = CR
        THEN IF fr.stage = 0 \/ fr.stage = 2
             THEN Continue(fr.stage + 1, fr.buffer)
             ELSE Return(Err(op, "InvalidData", 0), rest)
        ELSE IF byte = LF
        THEN IF fr.stage = 1 \/ fr.stage = 3
             THEN IF fr.stage = 3
                  THEN Return(Ok(op, fr.total), rest)
                  ELSE ReadChunk(b, op, fr, rest, source)
             ELSE Return(Err(op, "InvalidData", 0), rest)
        ELSE Continue(fr.stage, Append(fr.buffer, byte))

\* has_sequence: the scan, byte by byte, with the count of needle bytes matched so far.
RECURSIVE HasSequenceFrom(_, _, _, _)
HasSequenceFrom(bytes, needle, i, found) ==
    IF i > Len(bytes) THEN FALSE
    ELSE LET now == IF bytes[i] = needle[found + 1] THEN found + 1 ELSE 0
         IN  IF now = Len(needle) THEN TRUE
             ELSE HasSequenceFrom(bytes, needle, i + 1, now)

HasSequence(bytes, needle) == HasSequenceFrom(bytes, needle, 1, 0)

\* write_to_stream: the sink after the write.
WriteToStreamReversed(out, data) == data \o out

WriteToStream(out, data) == out \o data

\* flush_stream: how many bytes of the sink are flushed after it.
FlushStream(out, data) == Len(out)

\* relay_chunked_stream, the top of the loop: the limit is spent.
RelayLimitSpent(limit, count) == limit.some /\ count >= limit.v

\* relay_chunked_stream, after the flush: the window joins the tail buffer,
\* which is cut to its last 5 bytes and searched for the terminator.
\* [kind, buffer]: "panic" (the tail is shorter than 5 bytes: the
\* subtraction overflows, or the slice's start is out of range), "break" or "next".
RelayChunkedTail(buffer, bytes) ==
    LET joined == buffer \o bytes
        tail == Drop(joined, Len(joined) - TailSize)
    IN  IF Len(joined) < TailSize THEN [kind |-> "panic", buffer |-> joined]
        ELSE IF HasSequence(tail, Terminator) THEN [kind |-> "break", buffer |-> tail]
        ELSE [kind |-> "next", buffer |-> tail]

\* relay_sized_stream, after the flush: "break", "err" (more than length was read) or "next".
RelaySizedVerdictShortIsError(size, count, length) ==
    IF count = length THEN "break"
    ELSE IF size = 0 \/ count > length THEN "err"
    ELSE "next"

RelaySizedVerdict(size, count, length) ==
    IF size = 0 \/ count = length THEN "break"
    ELSE IF count > length THEN "err"
    ELSE "next"

\* relay_chunked_stream and relay_sized_stream on a transport whose every
\* read fills the window as far as the stream has bytes: the loop from a turn
\* on, with the count, the tail buffer and the sink as they stand.
\* [res, output]; res is NoResult when the loop never ends (a read of 0
\* bytes leaves it where it was).
RECURSIVE RelayInWholeReads(_, _, _, _, _, _, _)
RelayInWholeReads(op, stream, limit, length, count, buffer, out) ==
    IF op = "relay_chunked" /\ RelayLimitSpent(limit, count)
    THEN [res |-> Err(op, "SizeLimitExceeded", limit.v), output |-> out]
    ELSE IF ReadFails(stream)
    THEN [res |-> Err(op, "StreamNotReadable", 0), output |-> out]
    ELSE LET size == Min(WindowSize, Len(stream.data))
             bytes == Take(stream.data, size)
             now == count + size
             written == WriteToStream(out, bytes)
             tail == RelayChunkedTail(buffer, bytes)
             verdict == IF op = "relay_chunked" THEN tail.kind
                        ELSE RelaySizedVerdict(size, now, length)
         IN  IF verdict = "next"
             THEN IF size = 0 THEN [res |-> NoResult, output |-> written]
                  ELSE RelayInWholeReads(op, Advance(stream, size), limit, length, now,
                                         IF op = "relay_chunked" THEN tail.buffer ELSE buffer,
                                         written)
             ELSE [res |-> IF verdict = "panic" THEN Panic(op)
                           ELSE IF verdict = "err" THEN Err(op, "SizeLimitExceeded", length)
                           ELSE Ok(op, now),
                   output |-> written]

----------------------------------------------------------------------------
(* The task: one entity, one call at a time. *)

Idle ==
    [op |-> "idle", stage |-> 0, buffer |-> <<>>, total |-> 0, limit |-> None]

\* A call as it was made: the operation, the stream and the length it was
\* given, how many bytes the accumulator held, and whether the entity went on
\* to call the stream primitive (inner) or returned before it.
Call(op, stream, length, base, inner) ==
    [op |-> op, stream |-> stream, length |-> length, base |-> base, inner |-> inner]

NoCall == Call("none", Closed, 0, 0, FALSE)

\* Body::new, Relay::new
NewBody == [bytes |-> <<>>, length |-> 0, length_limit |-> None]
NewRelay == [length |-> 0, length_limit |-> None]

\* The next operation may begin: no call is in flight, the task has taken
\* the result of the last one and has not panicked.
Ready(e) ==
    /\ entity = e
    /\ frame.op = "idle"
    /\ call = NoCall

\* The task takes the result of the call that returned and lets go of the
\* streams it had handed to it. A task that panicked is gone.
TaskTakesResult ==
    /\ frame.op = "idle"
    /\ call # NoCall
    /\ result.kind # "panic"
    /\ input' = Closed
    /\ call' = NoCall
    /\ result' = NoResult
    /\ output' = <<>>
    /\ flushed' = 0
    /\ UNCHANGED <<entity, mapping, scan, parts, request, response, body, relay, frame, calls>>

\* No call of has_sequence has been made.
NoScan == [bytes |-> <<>>, needle |-> <<>>, called |-> FALSE, found |-> FALSE]

\* Request::new
NewRequest ==
    [method |-> NoString, uri |-> NoString, version |-> NoString, headers |-> EmptyMap,
     length |-> 0, length_limit |-> None, lines |-> <<>>]

\* Response::new
NewResponse ==
    [status_code |-> None, status_message |-> NoString, version |-> NoString,
     headers |-> EmptyMap, length |-> 0, length_limit |-> None, lines |-> <<>>]

Init ==
    /\ entity \in {"Body", "Relay"}
    /\ parts = <<>>
    /\ mapping = EmptyMap
    /\ scan = NoScan
    /\ request = NewRequest
    /\ response = NewResponse
    /\ body = NewBody
    /\ relay = NewRelay
    /\ input = Closed
    /\ call = NoCall
    /\ output = <<>>
    /\ flushed = 0
    /\ frame = Idle
    /\ result = NoResult
    /\ calls = 0

----------------------------------------------------------------------------
(* src/body.rs *)

BodySetLengthLimit(limit) ==
    /\ Ready("Body")
    /\ body' = [body EXCEPT !.length_limit = Some(limit)]
    /\ UNCHANGED <<entity, mapping, scan, parts, request, response, relay, input, call, output, flushed, frame, result, calls>>

BodyRemoveLengthLimit ==
    /\ Ready("Body")
    /\ body' = [body EXCEPT !.length_limit = None]
    /\ UNCHANGED <<entity, mapping, scan, parts, request, response, relay, input, call, output, flushed, frame, result, calls>>

BodyClear ==
    /\ Ready("Body")
    /\ body' = [bytes |-> <<>>, length |-> 0, length_limit |-> None]
    /\ UNCHANGED <<entity, mapping, scan, parts, request, response, relay, input, call, output, flushed, frame, result, calls>>

\* Body::read_chunked and Relay::relay_chunked, the limit handed down: the
\* ceiling less what the entity holds. [kind, limit]: "ok", or the early
\* "err" of a ceiling of 0, or the "panic" of the subtraction.
RemainingLimit(b, length_limit, length) ==
    IF ~length_limit.some THEN [kind |-> "ok", limit |-> None]
    ELSE IF length_limit.v = 0 THEN [kind |-> "err", limit |-> None]
    ELSE LET diff == UsizeSub(b, length_limit.v, length)
         IN  IF diff.panic THEN [kind |-> "panic", limit |-> None]
             ELSE [kind |-> "ok", limit |-> Some(diff.v)]

\* Body::read_chunked, up to the call of read_chunked_stream.
BodyReadChunked(stream) ==
    \E b \in Builds :
    LET rem == RemainingLimit(b, body.length_limit, body.length)
    IN  /\ Ready("Body")
        /\ calls < MaxCalls
        /\ calls' = calls + 1
        /\ call' = Call("read_chunked", stream, 0, Len(body.bytes), rem.kind = "ok")
        /\ input' = stream
        /\ IF rem.kind = "ok"
           THEN /\ frame' = [Idle EXCEPT !.op = "read_chunked", !.limit = rem.limit]
                /\ result' = NoResult
           ELSE /\ frame' = Idle
                /\ result' = IF rem.kind = "panic" THEN Panic("read_chunked")
                             ELSE Err("read_chunked", "SizeLimitExceeded", body.length_limit.v)
        /\ UNCHANGED <<entity, mapping, scan, parts, request, response, body, relay, output, flushed>>

\* Body::read_chunked, one turn of read_chunked_stream's loop; when the
\* stream call returns, the rest of Body::read_chunked with it.
BodyReadChunkedStep ==
    \E b \in Builds :
    \E seen \in Cuts(input, Len(input.data) -
            Len(ReadChunkedTurn(b, "read_chunked", frame, input, body.bytes).stream.data)) :
    LET turn == ReadChunkedTurn(b, "read_chunked", frame, seen, body.bytes)
    IN  /\ entity = "Body"
        /\ frame.op = "read_chunked"
        /\ input' = turn.stream
        /\ call' = [call EXCEPT !.stream = AsSeen(@, input, seen)]
        /\ IF turn.ret
           THEN /\ frame' = Idle
                /\ result' = turn.res
                /\ body' = [body EXCEPT
                              !.bytes = turn.source,
                              !.length = IF turn.res.kind = "ok" THEN @ + turn.res.val ELSE @]
           ELSE /\ frame' = [frame EXCEPT !.stage = turn.stage, !.buffer = turn.buffer,
                                          !.total = turn.total]
                /\ result' = result
                /\ body' = [body EXCEPT !.bytes = turn.source]
        /\ UNCHANGED <<entity, mapping, scan, parts, request, response, relay, output, flushed, calls>>

\* Body::read_sized, the ceiling test: whether the bytes asked for would take
\* the body over its ceiling.
SizedOverLimit(length_limit, held, length) ==
    length_limit.some /\ length + held > length_limit.v

\* Body::read_sized
BodyReadSized(stream, length) ==
    LET read == ReadSizedStream(stream, body.bytes, length)
    IN  /\ Ready("Body")
        /\ calls < MaxCalls
        /\ calls' = calls + 1
        /\ call' = Call("read_sized", stream, length, Len(body.bytes),
                        ~SizedOverLimit(body.length_limit, body.length, length))
        /\ frame' = Idle
        /\ IF SizedOverLimit(body.length_limit, body.length, length)
           THEN /\ result' = Err("read_sized", "SizeLimitExceeded", body.length_limit.v)
                /\ input' = stream
                /\ body' = body
           ELSE /\ input' = read.stream
                /\ result' = IF read.kind = "ok" THEN Ok("read_sized", length)
                             ELSE Err("read_sized", read.err, 0)
                /\ body' = [body EXCEPT
                              !.bytes = read.source,
                              !.length = IF read.kind = "ok" THEN @ + length ELSE @]
        /\ UNCHANGED <<entity, mapping, scan, parts, request, response, relay, output, flushed>>

Limits == 0..MaxBody
Lengths == 0..(MaxBody + 1)

BodyNext ==
    \/ \E limit \in Limits : BodySetLengthLimit(limit)
    \/ BodyRemoveLengthLimit
    \/ BodyClear
    \/ \E stream \in Streams : BodyReadChunked(stream)
    \/ BodyReadChunkedStep
    \/ \E stream \in RawStreams, length \in Lengths : BodyReadSized(stream, length)

----------------------------------------------------------------------------
(* src/relay.rs *)

RelaySetLengthLimit(limit) ==
    /\ Ready("Relay")
    /\ relay' = [relay EXCEPT !.length_limit = Some(limit)]
    /\ UNCHANGED <<entity, mapping, scan, parts, request, response, body, input, call, output, flushed, frame, result, calls>>

RelayRemoveLengthLimit ==
    /\ Ready("Relay")
    /\ relay' = [relay EXCEPT !.length_limit = None]
    /\ UNCHANGED <<entity, mapping, scan, parts, request, response, body, input, call, output, flushed, frame, result, calls>>

RelayClear ==
    /\ Ready("Relay")
    /\ relay' = [length |-> 0, length_limit |-> None]
    /\ UNCHANGED <<entity, mapping, scan, parts, request, response, body, input, call, output, flushed, frame, result, calls>>

\* Relay::relay_chunked, up to the call of relay_chunked_stream. The call is
\* handed an empty sink.
RelayRelayChunked(stream) ==
    \E b \in Builds :
    LET rem == RemainingLimit(b, relay.length_limit, relay.length)
    IN  /\ Ready("Relay")
        /\ calls < MaxCalls
        /\ calls' = calls + 1
        /\ call' = Call("relay_chunked", stream, 0, 0, rem.kind = "ok")
        /\ input' = stream
        /\ output' = <<>>
        /\ flushed' = 0
        /\ IF rem.kind = "ok"
           THEN /\ frame' = [Idle EXCEPT !.op = "relay_chunked", !.limit = rem.limit]
                /\ result' = NoResult
           ELSE /\ frame' = Idle
                /\ result' = IF rem.kind = "panic" THEN Panic("relay_chunked")
                             ELSE Err("relay_chunked", "SizeLimitExceeded", relay.length_limit.v)
        /\ UNCHANGED <<entity, mapping, scan, parts, request, response, body, relay>>

\* Relay::relay_sized, up to the call of relay_sized_stream, and
\* relay_sized_stream up to its loop. The call is handed an empty sink.
RelayRelaySized(stream, length) ==
    LET over == SizedOverLimit(relay.length_limit, relay.length, length)
    IN  /\ Ready("Relay")
        /\ calls < MaxCalls
        /\ calls' = calls + 1
        /\ call' = Call("relay_sized", stream, length, 0, ~over)
        /\ input' = stream
        /\ output' = <<>>
        /\ flushed' = 0
        /\ IF over
           THEN /\ frame' = Idle
                /\ result' = Err("relay_sized", "SizeLimitExceeded", relay.length_limit.v)
           ELSE IF length = 0
           THEN /\ frame' = Idle
                /\ result' = Ok("relay_sized", 0)
           ELSE /\ frame' = [Idle EXCEPT !.op = "relay_sized"]
                /\ result' = NoResult
        /\ UNCHANGED <<entity, mapping, scan, parts, request, response, body, relay>>

\* A relay call returns: the rest of Relay::relay_chunked / relay_sized with it.
RelayReturns(res) ==
    /\ frame' = Idle
    /\ result' = res
    /\ relay' = [relay EXCEPT !.length = IF res.kind = "ok" THEN @ + res.val ELSE @]

\* relay_chunked_stream and relay_sized_stream, one turn of the loop: the
\* limit test (chunked), the read of a window, its write to the output, the
\* flush, and the test that ends the loop. Nothing else of the task runs
\* between the read and the flush.
RelayStreamTurn ==
    /\ entity = "Relay"
    /\ frame.op \in {"relay_chunked", "relay_sized"}
    /\ IF frame.op = "relay_chunked" /\ RelayLimitSpent(frame.limit, frame.total)
       THEN /\ RelayReturns(Err(frame.op, "SizeLimitExceeded", frame.limit.v))
            /\ UNCHANGED <<input, call, output, flushed>>
       ELSE \E seen \in Cuts(input, 1) :
            IF ReadFails(seen)
            THEN /\ RelayReturns(Err(frame.op, "StreamNotReadable", 0))
                 /\ input' = seen
                 /\ call' = [call EXCEPT !.stream = AsSeen(@, input, seen)]
                 /\ UNCHANGED <<output, flushed>>
            ELSE
            \E size \in ReadSizes(seen, WindowSize) :
            LET bytes == Take(seen.data, size)
                count == frame.total + size
                written == WriteToStream(output, bytes)
                tail == RelayChunkedTail(frame.buffer, bytes)
                verdict == IF frame.op = "relay_chunked" THEN tail.kind
                           ELSE RelaySizedVerdict(size, count, call.length)
            IN  /\ input' = Advance(seen, size)
                /\ call' = [call EXCEPT !.stream = AsSeen(@, input, seen)]
                /\ output' = written
                /\ flushed' = FlushStream(written, bytes)
                /\ IF verdict = "next"
                   THEN /\ frame' = [frame EXCEPT
                                       !.total = count,
                                       !.buffer = IF frame.op = "relay_chunked"
                                                  THEN tail.buffer ELSE @]
                        /\ UNCHANGED <<relay, result>>
                   ELSE RelayReturns(IF verdict = "panic" THEN Panic(frame.op)
                                     ELSE IF verdict = "err"
                                     THEN Err(frame.op, "SizeLimitExceeded", call.length)
                                     ELSE Ok(frame.op, count))
    /\ UNCHANGED <<entity, mapping, scan, parts, request, response, body, calls>>

RelayNext ==
    \/ \E limit \in Limits : RelaySetLengthLimit(limit)
    \/ RelayRemoveLengthLimit
    \/ RelayClear
    \/ \E stream \in Streams : RelayRelayChunked(stream)
    \/ \E stream \in LongRawStreams, length \in Lengths : RelayRelaySized(stream, length)
    \/ RelayStreamTurn

----------------------------------------------------------------------------
(* src/request.rs *)

\* What an operation of a message gives: the message after it, and what it returned.
Gives(message, res) == [message |-> message, res |-> res]

\* The task may call the next operation of its message: it has not panicked.
MessageReady(e) == Ready(e) /\ result.kind # "panic"

\* Request::read_string
RequestReadString(r, value) ==
    IF ~Contains(value, CRLF) THEN Gives(r, Err("read_string", "InvalidData", 0))
    ELSE IF r.length_limit.some /\ Len(value) + r.length > r.length_limit.v
    THEN Gives(r, Err("read_string", "SizeLimitExceeded", r.length_limit.v))
    ELSE Gives([r EXCEPT !.length = @ + Len(value), !.lines = @ \o Split(value, CRLF)],
               Ok("read_string", 0))

\* Request::parse_head, the version token.
RequestParseVersion(version) ==
    IF version = Http \o Version10 THEN Some(Version10)
    ELSE IF version = Http \o Version11 THEN Some(Version11)
    ELSE NoString

\* Request::parse_head: each field is assigned as its token is found.
RequestParseHead(r) ==
    IF r.lines = <<>> THEN Gives(r, Err("parse_head", "InvalidData", 0))
    ELSE LET split == SplitN(3, r.lines[1], <<SP>>)
             m == [r EXCEPT !.method = Some(split[1])]
             u == [m EXCEPT !.uri = Some(split[2])]
         IN  IF Len(split) < 2 THEN Gives(m, Err("parse_head", "InvalidData", 0))
             ELSE IF Len(split) < 3 \/ ~RequestParseVersion(split[3]).some
             THEN Gives(u, Err("parse_head", "InvalidData", 0))
             ELSE Gives([u EXCEPT !.version = RequestParseVersion(split[3])],
                        Ok("parse_head", 0))

\* Request::parse_headers, from line i on: every line is a header.
RECURSIVE RequestParseHeadersFrom(_, _)
RequestParseHeadersFrom(r, i) ==
    IF i > Len(r.lines) THEN Gives(r, Ok("parse_headers", 0))
    ELSE LET split == SplitN(2, r.lines[i], ColonSpace)
         IN  IF Len(split) < 2 THEN Gives(r, Err("parse_headers", "InvalidData", 0))
             ELSE RequestParseHeadersFrom(
                      [r EXCEPT !.headers = Insert(@, split[1], split[2])], i + 1)

RequestParseHeaders(r) == RequestParseHeadersFrom(r, 2)

\* Request::build_head: lines[0] is assigned, which panics when there is no line.
RequestBuildHead(r) ==
    IF ~r.method.some \/ ~r.uri.some \/ ~r.version.some
    THEN Gives(r, Err("build_head", "InvalidData", 0))
    ELSE IF r.lines = <<>> THEN Gives(r, Panic("build_head"))
    ELSE Gives([r EXCEPT !.lines[1] =
                    r.method.v \o <<SP>> \o r.uri.v \o <<SP>> \o Http \o r.version.v],
               Ok("build_head", 0))

\* The lines format!("{}: {}", name, value) of the headers, in the order given.
HeaderLines(headers, order) ==
    [i \in 1..Len(order) |-> order[i] \o ColonSpace \o headers[order[i]]]

\* Request::build_headers, the map handing out its keys in `order`.
RequestBuildHeaders(r, order) ==
    Gives([r EXCEPT !.lines = (IF @ = <<>> THEN <<>> ELSE <<@[1]>>)
                                  \o HeaderLines(r.headers, order)],
          Ok("build_headers", 0))

\* Request::to_string
RequestToString(r) == Join(r.lines, CRLF) \o CRLF \o CRLF

\* Request::clear
RequestCleared(r) ==
    [r EXCEPT !.method = NoString, !.uri = NoString, !.version = NoString,
              !.headers = EmptyMap, !.length = 0, !.length_limit = None, !.lines = <<>>]

\* An operation of the Request returns.
RequestReturns(gives) ==
    /\ calls < MaxOps
    /\ calls' = calls + 1
    /\ request' = gives.message
    /\ result' = gives.res
    /\ UNCHANGED <<entity, mapping, scan, parts, response, body, relay, input, call, output, flushed, frame>>

RequestSetMethod(value) ==
    /\ MessageReady("Request")
    /\ RequestReturns(Gives([request EXCEPT !.method = Some(value)], Ok("set_method", 0)))

RequestSetUri(value) ==
    /\ MessageReady("Request")
    /\ RequestReturns(Gives([request EXCEPT !.uri = Some(value)], Ok("set_uri", 0)))

RequestSetVersion(value) ==
    /\ MessageReady("Request")
    /\ RequestReturns(Gives([request EXCEPT !.version = Some(value)], Ok("set_version", 0)))

RequestSetHeader(name, value) ==
    /\ MessageReady("Request")
    /\ RequestReturns(Gives([request EXCEPT !.headers = Insert(@, name, value)],
                         Ok("set_header", 0)))

RequestSetLengthLimit(limit) ==
    /\ MessageReady("Request")
    /\ RequestReturns(Gives([request EXCEPT !.length_limit = Some(limit)],
                         Ok("set_length_limit", 0)))

RequestRemoveMethod ==
    /\ MessageReady("Request")
    /\ RequestReturns(Gives([request EXCEPT !.method = NoString], Ok("remove_method", 0)))

RequestRemoveUri ==
    /\ MessageReady("Request")
    /\ RequestReturns(Gives([request EXCEPT !.uri = NoString], Ok("remove_uri", 0)))

RequestRemoveVersion ==
    /\ MessageReady("Request")
    /\ RequestReturns(Gives([request EXCEPT !.version = NoString], Ok("remove_version", 0)))

RequestRemoveHeader(name) ==
    /\ MessageReady("Request")
    /\ RequestReturns(Gives([request EXCEPT !.headers = Remove(@, name)],
                         Ok("remove_header", 0)))

RequestRemoveLengthLimit ==
    /\ MessageReady("Request")
    /\ RequestReturns(Gives([request EXCEPT !.length_limit = None],
                         Ok("remove_length_limit", 0)))

\* read_string of a text of the model, or of what to_string makes of the Request.
RequestReadsString(value) ==
    /\ MessageReady("Request")
    /\ RequestReturns(RequestReadString(request, value))

RequestClear ==
    /\ MessageReady("Request")
    /\ RequestReturns(Gives(RequestCleared(request), Ok("clear", 0)))

RequestParsesHead ==
    /\ MessageReady("Request")
    /\ RequestReturns(RequestParseHead(request))

RequestParsesHeaders ==
    /\ MessageReady("Request")
    /\ RequestReturns(RequestParseHeaders(request))

RequestBuildsHead ==
    /\ MessageReady("Request")
    /\ RequestReturns(RequestBuildHead(request))

RequestBuildsHeaders ==
    \E order \in Orders(DOMAIN request.headers) :
        /\ MessageReady("Request")
        /\ RequestReturns(RequestBuildHeaders(request, order))

RequestNext ==
    \/ \E value \in Methods : RequestSetMethod(value)
    \/ \E value \in Uris : RequestSetUri(value)
    \/ \E value \in Versions : RequestSetVersion(value)
    \/ \E name \in HeaderNames, value \in HeaderValues : RequestSetHeader(name, value)
    \/ \E limit \in MessageLimits : RequestSetLengthLimit(limit)
    \/ RequestRemoveMethod
    \/ RequestRemoveUri
    \/ RequestRemoveVersion
    \/ \E name \in HeaderNames : RequestRemoveHeader(name)
    \/ RequestRemoveLengthLimit
    \/ \E value \in RequestTexts \cup {RequestToString(request)} : RequestReadsString(value)
    \/ RequestClear
    \/ RequestParsesHead
    \/ RequestParsesHeaders
    \/ RequestBuildsHead
    \/ RequestBuildsHeaders

Next ==
    \/ BodyNext
    \/ RelayNext
    \/ TaskTakesResult

Spec == Init /\ [][Next]_vars

\* The same task on an executor that goes on polling it: a relay loop that
\* can take a turn on the stream as it stands takes it in the end. Nothing
\* makes the peer end the stream, or turn its end into an error.
SpecFair == Spec /\ WF_vars(RelayStreamTurn /\ call'.stream = call.stream)

----------------------------------------------------------------------------
(* src/response.rs *)

\* Response::read_string
ResponseReadString(r, value) ==
    IF ~Contains(value, CRLF) THEN Gives(r, Err("read_string", "InvalidData", 0))
    ELSE IF r.length_limit.some /\ Len(value) + r.length > r.length_limit.v
    THEN Gives(r, Err("read_string", "SizeLimitExceeded", r.length_limit.v))
    ELSE Gives([r EXCEPT !.length = @ + Len(value), !.lines = @ \o Split(value, CRLF)],
               Ok("read_string", 0))

\* Response::parse_head, the version token.
ResponseParseVersion(version) ==
    IF version = Http \o Version10 THEN Some(Version10)
    ELSE IF version = Http \o Version11 THEN Some(Version11)
    ELSE NoString

\* Response::parse_head: the version and the status code are assigned as
\* their tokens are found; the third token is not looked at.
ResponseParseHead(r) ==
    IF r.lines = <<>> THEN Gives(r, Err("parse_head", "InvalidData", 0))
    ELSE LET split == SplitN(3, r.lines[1], <<SP>>)
             v == [r EXCEPT !.version = ResponseParseVersion(split[1])]
             code == ParseUsize(split[2])
         IN  IF ~ResponseParseVersion(split[1]).some
             THEN Gives(r, Err("parse_head", "InvalidData", 0))
             ELSE IF Len(split) < 2 \/ ~code.ok
             THEN Gives(v, Err("parse_head", "InvalidData", 0))
             ELSE Gives([v EXCEPT !.status_code = Some(code.v)], Ok("parse_head", 0))

\* Response::parse_headers, from line i on: the headers end at an empty line.
RECURSIVE ResponseParseHeadersFrom(_, _)
ResponseParseHeadersFrom(r, i) ==
    IF i > Len(r.lines) \/ r.lines[i] = <<>> THEN Gives(r, Ok("parse_headers", 0))
    ELSE LET split == SplitN(2, r.lines[i], ColonSpace)
         IN  IF Len(split) < 2 THEN Gives(r, Err("parse_headers", "InvalidData", 0))
             ELSE ResponseParseHeadersFrom(
                      [r EXCEPT !.headers = Insert(@, split[1], split[2])], i + 1)

ResponseParseHeaders(r) == ResponseParseHeadersFrom(r, 2)

\* Response::build_head: the head is pushed when there is no line, else it replaces lines[0].
ResponseBuildHead(r) ==
    IF ~r.version.some \/ ~r.status_code.some \/ ~r.status_message.some
    THEN Gives(r, Err("build_head", "InvalidData", 0))
    ELSE LET head == Http \o r.version.v \o <<SP>> \o FormatUsize(r.status_code.v)
                         \o <<SP>> \o r.status_message.v
         IN  Gives([r EXCEPT !.lines = IF @ = <<>> THEN <<head>> ELSE [@ EXCEPT ![1] = head]],
                   Ok("build_head", 0))

\* Response::build_headers, the map handing out its keys in `order`.
ResponseBuildHeaders(r, order) ==
    Gives([r EXCEPT !.lines = (IF @ = <<>> THEN <<>> ELSE <<@[1]>>)
                                  \o HeaderLines(r.headers, order)],
          Ok("build_headers", 0))

\* Response::to_string
ResponseToString(r) == Join(r.lines, CRLF) \o CRLF \o CRLF

\* Response::clear
ResponseCleared(r) ==
    [r EXCEPT !.status_code = None, !.version = NoString, !.headers = EmptyMap,
              !.length = 0, !.length_limit = None, !.lines = <<>>]

\* An operation of the Response returns.
ResponseReturns(gives) ==
    /\ calls < MaxOps
    /\ calls' = calls + 1
    /\ response' = gives.message
    /\ result' = gives.res
    /\ UNCHANGED <<entity, mapping, scan, parts, request, body, relay, input, call, output, flushed, frame>>

ResponseSetStatusCode(value) ==
    /\ MessageReady("Response")
    /\ ResponseReturns(Gives([response EXCEPT !.status_code = Some(value)],
                       Ok("set_status_code", 0)))

ResponseSetStatusMessage(value) ==
    /\ MessageReady("Response")
    /\ ResponseReturns(Gives([response EXCEPT !.status_message = Some(value)],
                       Ok("set_status_message", 0)))

ResponseSetVersion(value) ==
    /\ MessageReady("Response")
    /\ ResponseReturns(Gives([response EXCEPT !.version = Some(value)], Ok("set_version", 0)))

ResponseSetHeader(name, value) ==
    /\ MessageReady("Response")
    /\ ResponseReturns(Gives([response EXCEPT !.headers = Insert(@, name, value)],
                       Ok("set_header", 0)))

ResponseSetLengthLimit(limit) ==
    /\ MessageReady("Response")
    /\ ResponseReturns(Gives([response EXCEPT !.length_limit = Some(limit)],
                       Ok("set_length_limit", 0)))

ResponseRemoveStatusCode ==
    /\ MessageReady("Response")
    /\ ResponseReturns(Gives([response EXCEPT !.status_code = None], Ok("remove_status_code", 0)))

ResponseRemoveStatusMessage ==
    /\ MessageReady("Response")
    /\ ResponseReturns(Gives([response EXCEPT !.status_message = NoString],
                       Ok("remove_status_message", 0)))

ResponseRemoveVersion ==
    /\ MessageReady("Response")
    /\ ResponseReturns(Gives([response EXCEPT !.version = NoString], Ok("remove_version", 0)))

ResponseRemoveHeader(name) ==
    /\ MessageReady("Response")
    /\ ResponseReturns(Gives([response EXCEPT !.headers = Remove(@, name)],
                       Ok("remove_header", 0)))

ResponseRemoveLengthLimit ==
    /\ MessageReady("Response")
    /\ ResponseReturns(Gives([response EXCEPT !.length_limit = None],
                       Ok("remove_length_limit", 0)))

\* read_string of a text of the model, or of what to_string makes of the Response.
ResponseReadsString(value) ==
    /\ MessageReady("Response")
    /\ ResponseReturns(ResponseReadString(response, value))

ResponseClear ==
    /\ MessageReady("Response")
    /\ ResponseReturns(Gives(ResponseCleared(response), Ok("clear", 0)))

ResponseParsesHead ==
    /\ MessageReady("Response")
    /\ ResponseReturns(ResponseParseHead(response))

ResponseParsesHeaders ==
    /\ MessageReady("Response")
    /\ ResponseReturns(ResponseParseHeaders(response))

ResponseBuildsHead ==
    /\ MessageReady("Response")
    /\ ResponseReturns(ResponseBuildHead(response))

ResponseBuildsHeaders ==
    \E order \in Orders(DOMAIN response.headers) :
        /\ MessageReady("Response")
        /\ ResponseReturns(ResponseBuildHeaders(response, order))

ResponseNext ==
    \/ \E value \in StatusCodes : ResponseSetStatusCode(value)
    \/ \E value \in StatusMessages : ResponseSetStatusMessage(value)
    \/ \E value \in Versions : ResponseSetVersion(value)
    \/ \E name \in HeaderNames, value \in HeaderValues : ResponseSetHeader(name, value)
    \/ \E limit \in MessageLimits : ResponseSetLengthLimit(limit)
    \/ ResponseRemoveStatusCode
    \/ ResponseRemoveStatusMessage
    \/ ResponseRemoveVersion
    \/ \E name \in HeaderNames : ResponseRemoveHeader(name)
    \/ ResponseRemoveLengthLimit
    \/ \E value \in ResponseTexts \cup {ResponseToString(response)} : ResponseReadsString(value)
    \/ ResponseClear
    \/ ResponseParsesHead
    \/ ResponseParsesHeaders
    \/ ResponseBuildsHead
    \/ ResponseBuildsHeaders

----------------------------------------------------------------------------
(* src/utils.rs: read_head *)

\* A start-line: its tokens, one space between two of them, and CRLF.
StartLine(tokens) == Join(tokens, <<SP>>) \o CRLF

\* A token of n bytes ('x').
LongToken(n) == [i \in 1..n |-> 120]

\* The heads of the model: a request line of three tokens, of two and of
\* one, and lines of one token that are one byte short of HeadLimit bytes,
\* HeadLimit bytes and one byte more, the CRLF counted.
HeadTokens ==
    {<<GET, Root, Http \o Version11>>, <<GET, Root>>, <<GET>>}
    \cup {<<LongToken(n - CrlfSize)>> : n \in (HeadLimit - 1)..(HeadLimit + 1)}

\* Lines no writer makes: one ended by a bare LF, and ones with a CR that no
\* LF follows ("G\rX\r\n", "G\rX\n").
MalformedHeads == {GET \o <<LF>>, <<71, CR, 88, CR, LF>>, <<71, CR, 88, LF>>}

\* The streams read_head is given: a head and the first byte of the headers
\* ('H'). The peer may end any of them early (Cuts).
HeadStreams ==
    {[data |-> StartLine(tokens) \o <<72>>, end |-> "eof"] : tokens \in HeadTokens}
    \cup {[data |-> d, end |-> "eof"] : d \in MalformedHeads}

\* read_head, one turn of its loop: a read of one byte and what it leads to.
\* buff, length and stage are the buffer, total and stage of the frame.
ReadHeadTurn(op, fr, stream, tokens) ==
    LET byte == stream.data[1]
        rest == Advance(stream, 1)
        length == fr.total + 1
        Return(res, s, out) == Turn(TRUE, res, fr.stage, fr.buffer, fr.total, s, out)
        Continue(stage, buff, out) == Turn(FALSE, NoResult, stage, buff, length, rest, out)
    IN  IF ReadFails(stream) THEN Return(Err(op, "StreamNotReadable", 0), stream, tokens)
        ELSE IF stream.data = <<>> THEN Return(Ok(op, fr.total), stream, tokens)
        ELSE IF length = HeadLimit THEN Return(Err(op, "InvalidData", 0), rest, tokens)
        ELSE IF byte = SP THEN Continue(fr.stage, <<>>, Append(tokens, fr.buffer))
        ELSE IF byte = CR THEN Continue(1, fr.buffer, tokens)
        ELSE IF byte = LF
        THEN IF fr.stage = 1
             THEN Return(Ok(op, length), rest, Append(tokens, fr.buffer))
             ELSE Return(Err(op, "InvalidData", 0), rest, tokens)
        ELSE Continue(fr.stage, Append(fr.buffer, byte), tokens)

\* The task calls read_head(&mut stream, &mut parts).
ReadHead(stream) ==
    /\ Ready("Head")
    /\ calls < MaxCalls
    /\ calls' = calls + 1
    /\ call' = Call("read_head", stream, 0, Len(parts), TRUE)
    /\ input' = stream
    /\ frame' = [Idle EXCEPT !.op = "read_head"]
    /\ result' = NoResult
    /\ UNCHANGED <<entity, mapping, scan, parts, request, response, body, relay, output, flushed>>

\* read_head, one turn of its loop.
ReadHeadStep ==
    \E seen \in Cuts(input, 1) :
    LET turn == ReadHeadTurn("read_head", frame, seen, parts)
    IN  /\ entity = "Head"
        /\ frame.op = "read_head"
        /\ input' = turn.stream
        /\ call' = [call EXCEPT !.stream = AsSeen(@, input, seen)]
        /\ parts' = turn.source
        /\ IF turn.ret
           THEN /\ frame' = Idle
                /\ result' = turn.res
           ELSE /\ frame' = [frame EXCEPT !.stage = turn.stage, !.buffer = turn.buffer,
                                          !.total = turn.total]
                /\ result' = result
        /\ UNCHANGED <<entity, mapping, scan, request, response, body, relay, output, flushed, calls>>

\* A task that reads heads off streams.
InitHead ==
    /\ entity = "Head"
    /\ parts = <<>>
    /\ mapping = EmptyMap
    /\ scan = NoScan
    /\ request = NewRequest
    /\ response = NewResponse
    /\ body = NewBody
    /\ relay = NewRelay
    /\ input = Closed
    /\ call = NoCall
    /\ output = <<>>
    /\ flushed = 0
    /\ frame = Idle
    /\ result = NoResult
    /\ calls = 0

NextHead ==
    \/ \E stream \in HeadStreams : ReadHead(stream)
    \/ ReadHeadStep
    \/ TaskTakesResult

SpecHead == InitHead /\ [][NextHead]_vars

----------------------------------------------------------------------------
(* src/utils.rs: read_headers *)

\* A header line: "Name: Value" and CRLF.
HeaderLine(pair) == pair[1] \o ColonSpace \o pair[2] \o CRLF

\* A header block: its lines, then the empty line.
RECURSIVE HeaderBlock(_)
HeaderBlock(pairs) ==
    IF pairs = <<>> THEN CRLF ELSE HeaderLine(pairs[1]) \o HeaderBlock(Tail(pairs))

\* The name/value pairs of the blocks: names "H" and "K", values "V" and "W".
HeaderPairs == HeaderNames \X (HeaderValues \cup {<<87>>})

\* The blocks of the model: up to MaxPairs lines, a name more than once among them.
PairLists == UNION {[1..n -> HeaderPairs] : n \in 0..MaxPairs}

\* Blocks no writer makes: a space in a value ("H: V W"), a colon in a value
\* ("H: V:W"), a space in a name ("H K: V"), no space after the colon
\* ("H:V"), a CR that a byte other than LF follows ("H: V\rX\n", "H: V\r\r\n"),
\* a bare LF ("H: V\n").
MalformedBlocks ==
    {<<72, 58, 32, 86, 32, 87>> \o CRLF \o CRLF,
     <<72, 58, 32, 86, 58, 87>> \o CRLF \o CRLF,
     <<72, 32, 75, 58, 32, 86>> \o CRLF \o CRLF,
     <<72, 58, 86>> \o CRLF \o CRLF,
     <<72, 58, 32, 86, CR, 88, LF>> \o CRLF,
     <<72, 58, 32, 86, CR>> \o CRLF,
     <<72, 58, 32, 86, LF>>}

\* The streams read_headers is given: a block and the first byte of the body
\* ('x'). The peer may end any of them early (Cuts).
BlockStreams ==
    {[data |-> HeaderBlock(pairs) \o <<120>>, end |-> "eof"] : pairs \in PairLists}
    \cup {[data |-> d, end |-> "eof"] : d \in MalformedBlocks}

\* The limits read_headers is given: none, one that admits a line and no
\* more, one that admits every block of the model.
BlockLimits == {None, Some(6), Some(64)}

\* The locals of read_headers: stage, name, value and length (total).
HeadersFrame(stage, name, value, total, limit) ==
    [op |-> "read_headers", stage |-> stage, name |-> name, value |-> value,
     total |-> total, limit |-> limit]

\* A call of read_headers as it was made: the stream, the limit and the map
\* as they were at entry.
HeadersCall(stream, limit, given) ==
    [op |-> "read_headers", stream |-> stream, limit |-> limit, given |-> given]

\* What one turn of read_headers' loop gives: the call goes on (ret = FALSE)
\* or returns res; the locals, the stream and the map after it.
HeadersTurn(ret, res, stage, name, value, total, stream, map) ==
    [ret |-> ret, res |-> res, stage |-> stage, name |-> name, value |-> value,
     total |-> total, stream |-> stream, map |-> map]

\* read_headers, the LF of a line: the line is inserted as it stands.
ReadHeadersInsertKeepsFirst(map, name, value) ==
    IF name \in DOMAIN map THEN map ELSE Insert(map, name, value)

ReadHeadersInsert(map, name, value) == Insert(map, name, value)

\* read_headers, one turn of its loop: a read of one byte and what it leads to.
ReadHeadersTurn(op, fr, stream, map) ==
    LET byte == stream.data[1]
        rest == Advance(stream, 1)
        length == fr.total + 1
        Return(res, s) ==
            HeadersTurn(TRUE, res, fr.stage, fr.name, fr.value, fr.total, s, map)
        Continue(stage, name, value, out) ==
            HeadersTurn(FALSE, NoResult, stage, name, value, length, rest, out)
        Invalid == Return(Err(op, "InvalidData", 0), rest)
    IN  IF ReadFails(stream) THEN Return(Err(op, "StreamNotReadable", 0), stream)
        ELSE IF stream.data = <<>> THEN Return(Ok(op, fr.total), stream)
        ELSE IF fr.limit.some /\ fr.limit.v < length
        THEN Return(Err(op, "SizeLimitExceeded", fr.limit.v), rest)
        ELSE IF byte = Colon
        THEN IF fr.stage = 0 THEN Continue(1, fr.name, fr.value, map) ELSE Invalid
        ELSE IF byte = SP
        THEN IF fr.stage = 1 THEN Continue(2, fr.name, fr.value, map) ELSE Invalid
        ELSE IF byte = CR
        THEN IF fr.stage = 0 \/ fr.stage = 2
             THEN Continue(3, fr.name, fr.value, map) ELSE Invalid
        ELSE IF byte = LF
        THEN IF fr.stage = 3
             THEN IF fr.name = <<>> /\ fr.value = <<>>
                  THEN Return(Ok(op, length), rest)
                  ELSE Continue(0, <<>>, <<>>, ReadHeadersInsert(map, fr.name, fr.value))
             ELSE Invalid
        ELSE IF fr.stage = 0 THEN Continue(0, Append(fr.name, byte), fr.value, map)
        ELSE IF fr.stage = 2 THEN Continue(2, fr.name, Append(fr.value, byte), map)
        ELSE Continue(fr.stage, fr.name, fr.value, map)

\* The task calls read_headers(&mut stream, &mut output, limit).
ReadHeaders(stream, limit) ==
    /\ Ready("Headers")
    /\ calls < MaxCalls
    /\ calls' = calls + 1
    /\ call' = HeadersCall(stream, limit, mapping)
    /\ input' = stream
    /\ frame' = HeadersFrame(0, <<>>, <<>>, 0, limit)
    /\ result' = NoResult
    /\ UNCHANGED <<entity, parts, mapping, scan, request, response, body, relay, output, flushed>>

\* read_headers, one turn of its loop.
ReadHeadersStep ==
    \E seen \in Cuts(input, 1) :
    LET turn == ReadHeadersTurn("read_headers", frame, seen, mapping)
    IN  /\ entity = "Headers"
        /\ frame.op = "read_headers"
        /\ input' = turn.stream
        /\ call' = [call EXCEPT !.stream = AsSeen(@, input, seen)]
        /\ mapping' = turn.map
        /\ IF turn.ret
           THEN /\ frame' = Idle
                /\ result' = turn.res
           ELSE /\ frame' = HeadersFrame(turn.stage, turn.name, turn.value, turn.total,
                                         frame.limit)
                /\ result' = result
        /\ UNCHANGED <<entity, parts, scan, request, response, body, relay, output, flushed, calls>>

\* A task that reads header blocks off streams, into one map.
InitHeaders ==
    /\ entity = "Headers"
    /\ parts = <<>>
    /\ mapping = EmptyMap
    /\ scan = NoScan
    /\ request = NewRequest
    /\ response = NewResponse
    /\ body = NewBody
    /\ relay = NewRelay
    /\ input = Closed
    /\ call = NoCall
    /\ output = <<>>
    /\ flushed = 0
    /\ frame = Idle
    /\ result = NoResult
    /\ calls = 0

NextHeaders ==
    \/ \E stream \in BlockStreams, limit \in BlockLimits : ReadHeaders(stream, limit)
    \/ ReadHeadersStep
    \/ TaskTakesResult

SpecHeaders == InitHeaders /\ [][NextHeaders]_vars

----------------------------------------------------------------------------
(* src/body.rs: Body::read; src/relay.rs: Relay::relay *)

ContentLength == <<67, 111, 110, 116, 101, 110, 116, 45, 76, 101, 110, 103, 116, 104>>
TransferEncoding ==
    <<84, 114, 97, 110, 115, 102, 101, 114, 45, 69, 110, 99, 111, 100, 105, 110, 103>>
Chunked == <<99, 104, 117, 110, 107, 101, 100>>
Gzip == <<103, 122, 105, 112>>

\* HashMap::get
Get(map, name) == IF name \in DOMAIN map THEN Some(map[name]) ELSE NoString

\* The values of Content-Length in the maps of the model: the decimal digits
\* of MaxBody, and a text that is no number ("x").
LengthValues == {FormatUsize(MaxBody), <<120>>}

\* The values of Transfer-Encoding: "chunked", "gzip, chunked", "gzip".
EncodingValues == {Chunked, Gzip \o <<44, SP>> \o Chunked, Gzip}

\* A map with the header, when there is one.
WithHeader(map, name, value) == IF value.some THEN Insert(map, name, value.v) ELSE map

\* The maps Body::read and Relay::relay are given: each of the two headers
\* absent, or present with one of the values.
FramingMaps ==
    {WithHeader(WithHeader(EmptyMap, ContentLength, length), TransferEncoding, encoding) :
        length \in {NoString} \cup {Some(v) : v \in LengthValues},
        encoding \in {NoString} \cup {Some(v) : v \in EncodingValues}}

\* The streams Body::read and Relay::relay are given.
FramingStreams == Streams \cup LongRawStreams

\* Body::read and Relay::relay, the framing the map asks for: [kind, length],
\* kind "chunked", "sized" or "err" (no usable Content-Length).
FramingLengthFirst(res) ==
    LET length == Get(res, ContentLength)
        encoding == Get(res, TransferEncoding)
    IN  IF length.some /\ ParseUsize(length.v).ok
        THEN [kind |-> "sized", length |-> ParseUsize(length.v).v]
        ELSE IF encoding.some /\ Contains(encoding.v, Chunked)
        THEN [kind |-> "chunked", length |-> 0]
        ELSE [kind |-> "err", length |-> 0]

Framing(res) ==
    LET length == Get(res, ContentLength)
        encoding == Get(res, TransferEncoding)
    IN  IF encoding.some /\ Contains(encoding.v, Chunked)
        THEN [kind |-> "chunked", length |-> 0]
        ELSE IF length.some /\ ParseUsize(length.v).ok
        THEN [kind |-> "sized", length |-> ParseUsize(length.v).v]
        ELSE [kind |-> "err", length |-> 0]

\* Error::InvalidHeader(String::from("Content-Length"))
InvalidHeader(op) == Err(op, "InvalidHeader(Content-Length)", 0)

\* The task makes the map of headers it will hand to read or relay.
TaskMakesHeaders(res) ==
    /\ entity \in {"Body", "Relay"}
    /\ frame.op = "idle"
    /\ call = NoCall
    /\ calls < MaxCalls
    /\ mapping # res
    /\ mapping' = res
    /\ UNCHANGED <<entity, parts, scan, request, response, body, relay, input, call, output,
                   flushed, frame, result, calls>>

\* Body::read
BodyRead(stream) ==
    /\ Ready("Body")
    /\ IF Framing(mapping).kind = "chunked" THEN BodyReadChunked(stream)
       ELSE IF Framing(mapping).kind = "sized"
       THEN BodyReadSized(stream, Framing(mapping).length)
       ELSE /\ calls < MaxCalls
            /\ calls' = calls + 1
            /\ call' = Call("read", stream, 0, Len(body.bytes), FALSE)
            /\ input' = stream
            /\ frame' = Idle
            /\ result' = InvalidHeader("read")
            /\ UNCHANGED <<entity, parts, mapping, scan, request, response, body, relay,
                           output, flushed>>

\* Relay::relay
RelayRelay(stream) ==
    /\ Ready("Relay")
    /\ IF Framing(mapping).kind = "chunked" THEN RelayRelayChunked(stream)
       ELSE IF Framing(mapping).kind = "sized"
       THEN RelayRelaySized(stream, Framing(mapping).length)
       ELSE /\ calls < MaxCalls
            /\ calls' = calls + 1
            /\ call' = Call("relay", stream, 0, 0, FALSE)
            /\ input' = stream
            /\ output' = <<>>
            /\ flushed' = 0
            /\ frame' = Idle
            /\ result' = InvalidHeader("relay")
            /\ UNCHANGED <<entity, parts, mapping, scan, request, response, body, relay>>

\* A task that owns a Body or a Relay and hands it the headers of its message.
NextFraming ==
    \/ \E res \in FramingMaps : TaskMakesHeaders(res)
    \/ \E stream \in FramingStreams : BodyRead(stream)
    \/ BodyReadChunkedStep
    \/ \E stream \in FramingStreams : RelayRelay(stream)
    \/ RelayStreamTurn
    \/ TaskTakesResult

SpecFraming == Init /\ [][NextFraming]_vars

----------------------------------------------------------------------------
(* src/utils.rs: has_sequence *)

\* The slices of up to n bytes, each byte 1 or 2.
Slices(n) == UNION {[1..k -> {1, 2}] : k \in 0..n}

\* The calls of the crate's test, checks_vector_has_sequence.
ScanTests ==
    {[bytes |-> <<CR, LF, CR, LF>>, needle |-> <<CR, LF, CR, LF>>],
     [bytes |-> <<1, 4, 6, 10, 21, 5, 150>>, needle |-> <<10, 21, 5>>],
     [bytes |-> <<1, 4, 6, 10, 21, 5, 150>>, needle |-> <<10, 5>>]}

\* What has_sequence is given: the slices of up to MaxScan bytes and the
\* needles of one byte and more that are shorter, and the calls of the test.
Scans ==
    {[bytes |-> b, needle |-> n] : b \in Slices(MaxScan), n \in Slices(MaxScan - 1) \ {<<>>}}
    \cup ScanTests

\* The task calls has_sequence(bytes, needle).
HasSequenceCalled ==
    /\ entity = "Sequence"
    /\ ~scan.called
    /\ scan' = [scan EXCEPT !.called = TRUE, !.found = HasSequence(scan.bytes, scan.needle)]
    /\ UNCHANGED <<entity, parts, mapping, request, response, body, relay, input, call,
                   output, flushed, frame, result, calls>>

\* A task with two slices in hand.
InitSequence ==
    /\ entity = "Sequence"
    /\ parts = <<>>
    /\ mapping = EmptyMap
    /\ \E given \in Scans :
           scan = [bytes |-> given.bytes, needle |-> given.needle,
                   called |-> FALSE, found |-> FALSE]
    /\ request = NewRequest
    /\ response = NewResponse
    /\ body = NewBody
    /\ relay = NewRelay
    /\ input = Closed
    /\ call = NoCall
    /\ output = <<>>
    /\ flushed = 0
    /\ frame = Idle
    /\ result = NoResult
    /\ calls = 0

NextSequence == HasSequenceCalled

SpecSequence == InitSequence /\ [][NextSequence]_vars

\* A task that owns a message.
InitMessage ==
    /\ entity \in {"Request", "Response"}
    /\ parts = <<>>
    /\ mapping = EmptyMap
    /\ scan = NoScan
    /\ request = NewRequest
    /\ response = NewResponse
    /\ body = NewBody
    /\ relay = NewRelay
    /\ input = Closed
    /\ call = NoCall
    /\ output = <<>>
    /\ flushed = 0
    /\ frame = Idle
    /\ result = NoResult
    /\ calls = 0

NextMessage ==
    \/ RequestNext
    \/ ResponseNext

SpecMessage == InitMessage /\ [][NextMessage]_vars

----------------------------------------------------------------------------
(* The claims. *)

BodyAtRest == entity = "Body" /\ frame.op = "idle"

Returned(op) == frame.op = "idle" /\ call.op = op /\ result.kind # "none"

\* What the call in flight, or the one that returned, has taken off its stream.
Consumed == Take(call.stream.data, Len(call.stream.data) - Len(input.data))

\* What the call has appended to the accumulator it was given.
Appended == Drop(body.bytes, call.base)

\* C1: between calls, whatever calls were made and whether they returned an
\* error or not, Body.length is the number of bytes held in Body.bytes.
C1_LengthIsBytesHeld ==
    BodyAtRest => body.length = Len(body.bytes)

\* C2: on a fresh Body with ceiling L, read_sized(S) of a stream of S bytes
\* and read_chunked of a well-formed body of S payload bytes succeed when
\* S <= L and fail with SizeLimitExceeded(L) when S > L.
C2_Verdict(S) ==
    IF S <= body.length_limit.v
    THEN result.kind = "ok"
    ELSE result.kind = "err" /\ result.err = "SizeLimitExceeded"
         /\ result.arg = body.length_limit.v

C2_SucceedsIffWithinCeiling ==
    (BodyAtRest /\ call.base = 0 /\ body.length_limit.some) =>
        /\ (Returned("read_sized") /\ Len(call.stream.data) = call.length)
               => C2_Verdict(call.length)
        /\ Returned("read_chunked") =>
               \A cs \in ChunkLists : call.stream.data = Encode(cs) => C2_Verdict(Sum(cs))

\* C3: when read_chunked_stream fails with SizeLimitExceeded(limit) at the
\* size line of chunk k+1, the accumulator has gained exactly the payloads of
\* the chunks 1..k, which fit the limit while chunk k+1 does not; and every
\* step of the decoder leaves the accumulator alone or appends one whole chunk.
C3_AtLimitFailure ==
    (entity = "Body" /\ Returned("read_chunked") /\ call.inner
     /\ result.kind = "err" /\ result.err = "SizeLimitExceeded") =>
        \A cs \in ChunkLists : \A k \in 0..(Len(cs) - 1) :
            Consumed = EncodeTo(cs, k) \o <<HexDigit(cs[k + 1]), CR, LF>> =>
                /\ Appended = PayloadTo(cs, k)
                /\ SumTo(cs, k) <= result.arg
                /\ SumTo(cs, k + 1) > result.arg

C3_WholeChunk ==
    (entity = "Body" /\ frame.op = "read_chunked" /\ body'.bytes # body.bytes) =>
        LET size == FromStrRadix16(frame.buffer).v
        IN  /\ size >= 1
            /\ Len(input.data) >= size + 1
            /\ body'.bytes = body.bytes \o SubSeq(input.data, 2, size + 1)

C3_NoPartialChunk == [](C3_AtLimitFailure) /\ [][C3_WholeChunk]_vars

C3_Witness ==
    /\ entity = "Body" /\ Returned("read_chunked") /\ call.inner
    /\ result.err = "SizeLimitExceeded"
    /\ call.base > 0
    /\ Appended # <<>>

\* C4: a Body with a ceiling set never holds more than the ceiling:
\* length <= ceiling between any two calls, set_length_limit included.
C4_LengthWithinCeiling ==
    (BodyAtRest /\ body.length_limit.some) => body.length <= body.length_limit.v

\* C5: no step of a relay call takes a Relay that is within its ceiling over
\* it: neither Relay.length nor, with it, the bytes the call has written.
C5_Step ==
    (entity = "Relay" /\ relay.length_limit.some
     /\ relay'.length_limit = relay.length_limit
     /\ relay.length <= relay.length_limit.v) =>
        /\ relay'.length <= relay.length_limit.v
        /\ call'.op \in {"relay_chunked", "relay_sized"} =>
               relay.length + Len(output') <= relay.length_limit.v

C5_RelayWithinCeiling == [][C5_Step]_vars

\* C6: relay_chunked_stream (no ceiling) on an input that begins with a
\* well-formed chunked body returns success, has written exactly the body
\* up to and including its terminator, and has left the rest of the input unread.
C6_RelaysExactlyTheBody ==
    (entity = "Relay" /\ Returned("relay_chunked") /\ ~relay.length_limit.some) =>
        \A w \in WellFormed : IsPrefix(w, call.stream.data) =>
            /\ result.kind = "ok"
            /\ output = w
            /\ input.data = Drop(call.stream.data, Len(w))

C8_Step ==
    (call.op = "none" /\ call'.op = "read_sized" /\ call'.inner) =>
        \/ /\ result'.kind = "ok"
           /\ result'.val = call'.length
           /\ Len(call'.stream.data) >= call'.length
           /\ body'.bytes = body.bytes \o Take(call'.stream.data, call'.length)
        \/ /\ result'.kind = "err"
           /\ result'.err = "StreamNotReadable"
           /\ Len(call'.stream.data) < call'.length
           /\ body'.bytes = body.bytes

C8_ExactOrFail == [][C8_Step]_vars

C8_Witness ==
    /\ entity = "Body" /\ Returned("read_sized") /\ call.inner
    /\ result.err = "StreamNotReadable"
    /\ call.stream.data # <<>>
    /\ call.base > 0

C10_NeverMoreThanLength ==
    (entity = "Relay" /\ call.op = "relay_sized" /\ call.inner) =>
        /\ Len(output) <= call.length
        /\ (Returned("relay_sized") /\ Len(call.stream.data) >= call.length) =>
               (result.kind = "ok" /\ result.val = call.length)

\* C11: read_chunked_stream (no limit) on an input that begins with a
\* well-formed chunked body appends the payloads of its chunks, in wire order
\* and without any framing byte, and returns the sum of the chunk sizes.
C11_DecodesWellFormed ==
    (entity = "Body" /\ Returned("read_chunked") /\ call.inner
     /\ ~body.length_limit.some) =>
        \A cs \in ChunkLists : IsPrefix(Encode(cs), call.stream.data) =>
            /\ result.kind = "ok"
            /\ result.val = Sum(cs)
            /\ Appended = Payload(cs)

C11_Witness ==
    /\ entity = "Body" /\ Returned("read_chunked") /\ call.inner
    /\ ~body.length_limit.some
    /\ result.kind = "ok"
    /\ \E cs \in ChunkLists :
           /\ Len(cs) > 1
           /\ IsPrefix(Encode(cs), call.stream.data)
           /\ Appended = Payload(cs)

\* C12: a chunked body whose stream ends (end of stream) before the first
\* byte of its zero-size chunk makes read_chunked_stream, and Body::read_chunked
\* with it, return an error.
C12_TruncatedIsError ==
    (entity = "Body" /\ Returned("read_chunked") /\ call.inner
     /\ call.stream.end = "eof") =>
        \A cs \in ChunkLists :
            IsPrefix(call.stream.data, EncodeTo(cs, Len(cs))) => result.kind = "err"

\* A message as new() and the setters of its head and its headers leave it:
\* the three fields of the head set, nothing read, no ceiling.
RequestGiven(r) ==
    /\ r.method.some /\ r.uri.some /\ r.version.some
    /\ r.lines = <<>> /\ r.length = 0 /\ ~r.length_limit.some

ResponseGiven(r) ==
    /\ r.version.some /\ r.status_code.some /\ r.status_message.some
    /\ r.lines = <<>> /\ r.length = 0 /\ ~r.length_limit.some

\* build_headers and to_string of `built`, whatever the order the map hands
\* out its keys in, then read_string of that text on a new Request,
\* parse_head and parse_headers: all succeed and give the fields of `given`.
RequestRoundTrips(given, built) ==
    \A order \in Orders(DOMAIN built.headers) :
        LET text == RequestToString(RequestBuildHeaders(built, order).message)
            read == RequestReadString(NewRequest, text)
            head == RequestParseHead(read.message)
            back == RequestParseHeaders(head.message)
        IN  /\ read.res.kind = "ok" /\ head.res.kind = "ok" /\ back.res.kind = "ok"
            /\ back.message.method = given.method
            /\ back.message.uri = given.uri
            /\ back.message.version = given.version
            /\ back.message.headers = given.headers

ResponseRoundTrips(given, built) ==
    \A order \in Orders(DOMAIN built.headers) :
        LET text == ResponseToString(ResponseBuildHeaders(built, order).message)
            read == ResponseReadString(NewResponse, text)
            head == ResponseParseHead(read.message)
            back == ResponseParseHeaders(head.message)
        IN  /\ read.res.kind = "ok" /\ head.res.kind = "ok" /\ back.res.kind = "ok"
            /\ back.message.version = given.version
            /\ back.message.status_code = given.status_code
            /\ back.message.status_message = given.status_message
            /\ back.message.headers = given.headers

\* C13: build_head on a Request that was created and given a method, a URI,
\* a version and headers succeeds, and so do build_headers, to_string, the
\* read_string of that text on a new Request, parse_head and parse_headers,
\* which give back the method, the URI, the version and the headers.
C13_Step ==
    (entity = "Request" /\ RequestGiven(request) /\ result'.op = "build_head") =>
        /\ result'.kind = "ok"
        /\ RequestRoundTrips(request, request')

C13_RequestRoundTrip == [][C13_Step]_vars

\* C14: build_head on a Response that was created and given a version, a
\* status code, a status message and headers succeeds, and so do
\* build_headers, to_string, the read_string of that text on a new Response,
\* parse_head and parse_headers, which give back the version, the status
\* code, the status message and the headers.
C14_Step ==
    (entity = "Response" /\ ResponseGiven(response) /\ result'.op = "build_head") =>
        /\ result'.kind = "ok"
        /\ ResponseRoundTrips(response, response')

C14_ResponseRoundTrip == [][C14_Step]_vars

\* C15: whatever state the Request is in, a parse_head that succeeds leaves
\* method, URI and version set; build_head fails with InvalidData when one
\* of them is unset, and when all are set it succeeds and leaves
\* "METHOD URI HTTP/VERSION" as the first line.
C15_Step ==
    /\ (entity = "Request" /\ result'.op = "parse_head" /\ result'.kind = "ok") =>
           (request'.method.some /\ request'.uri.some /\ request'.version.some)
    /\ (entity = "Request" /\ result'.op = "build_head") =>
           IF request.method.some /\ request.uri.some /\ request.version.some
           THEN /\ result'.kind = "ok"
                /\ request'.lines # <<>>
                /\ request'.lines[1] = request.method.v \o <<SP>> \o request.uri.v
                                           \o <<SP>> \o Http \o request.version.v
           ELSE result'.kind = "err" /\ result'.err = "InvalidData"

C15_HeadFieldsAndBuildHead == [][C15_Step]_vars

\* C16: clear(), in whatever state the message is, leaves it as new() makes it.
C16_Step ==
    (result'.op = "clear") =>
        /\ entity = "Request" => request' = NewRequest
        /\ entity = "Response" => response' = NewResponse

C16_ClearGivesNew == [][C16_Step]_vars

HeadReturned == entity = "Head" /\ Returned("read_head")

\* The tokens the call has appended to the Vec it was given.
HeadAppended == Drop(parts, call.base)

\* Where the first CR or LF of the bytes stands; 0 when there is none.
FirstLineEnd(data) ==
    LET ends == {i \in 1..Len(data) : data[i] \in {CR, LF}}
    IN  IF ends = {} THEN 0 ELSE CHOOSE i \in ends : \A j \in ends : i <= j

\* C17: read_head returns success on a start-line of up to HeadLimit (265)
\* bytes, its CRLF counted, and InvalidData on a longer one.
C17_HeadLimit ==
    HeadReturned =>
        \A tokens \in HeadTokens : IsPrefix(StartLine(tokens), call.stream.data) =>
            IF Len(StartLine(tokens)) <= HeadLimit
            THEN result.kind = "ok"
            ELSE result.kind = "err" /\ result.err = "InvalidData"

\* C18: read_head returns InvalidData when the first line end of the stream
\* is malformed: an LF with no CR right before it, or a CR that a byte other
\* than LF follows.
C18_MalformedTermination ==
    HeadReturned =>
        LET data == call.stream.data
            i == FirstLineEnd(data)
        IN  (i # 0 /\ (data[i] = LF \/ (i < Len(data) /\ data[i + 1] # LF))) =>
                (result.kind = "err" /\ result.err = "InvalidData")

\* C19: on a stream that ends (end of stream) with no line end in it,
\* read_head returns success, the count of the bytes, and the tokens that the
\* stream held: the one token of a stream that held one.
C19_EndOfStreamGivesTokens ==
    (HeadReturned /\ call.stream.end = "eof") =>
        LET data == call.stream.data
        IN  (data # <<>> /\ FirstLineEnd(data) = 0 /\ data[Len(data)] # SP
             /\ Len(data) < HeadLimit) =>
                /\ result.kind = "ok"
                /\ result.val = Len(data)
                /\ HeadAppended = Split(data, <<SP>>)

\* C20: on a start-line of tokens, one space between two of them, ended by
\* CRLF and within HeadLimit, read_head appends the tokens in their order,
\* returns the length of the line, its CRLF counted, and leaves what follows
\* the LF on the stream.
C20_TokensAndCount ==
    HeadReturned =>
        \A tokens \in HeadTokens :
            (IsPrefix(StartLine(tokens), call.stream.data)
             /\ Len(StartLine(tokens)) <= HeadLimit) =>
                /\ result.kind = "ok"
                /\ result.val = Len(StartLine(tokens))
                /\ HeadAppended = tokens
                /\ input.data = Drop(call.stream.data, Len(StartLine(tokens)))

HeadersReturned == entity = "Headers" /\ Returned("read_headers")

\* The limit the call was given admits n bytes.
LimitAdmits(n) == ~call.limit.some \/ call.limit.v >= n

\* The map a block makes of the map it is read into: every name of the
\* block with the value of the last line that has it, the other names as they were.
BlockNames(pairs) == {pairs[i][1] : i \in DOMAIN pairs}

LastValue(pairs, name) ==
    LET last == CHOOSE i \in DOMAIN pairs :
                    /\ pairs[i][1] = name
                    /\ \A j \in DOMAIN pairs : j > i => pairs[j][1] # name
    IN  pairs[last][2]

BlockRead(given, pairs) ==
    [n \in DOMAIN given \cup BlockNames(pairs) |->
        IF n \in BlockNames(pairs) THEN LastValue(pairs, n) ELSE given[n]]

\* C21: on a well-formed header block ("Name: Value" CRLF lines and an empty
\* line) that its limit admits, read_headers returns success and the length
\* of the block, has put every pair of the block in the map, the last value
\* of a name that comes more than once, and has left what follows the empty
\* line on the stream.
C21_ReadsWellFormedBlock ==
    HeadersReturned =>
        \A pairs \in PairLists :
            (IsPrefix(HeaderBlock(pairs), call.stream.data)
             /\ LimitAdmits(Len(HeaderBlock(pairs)))) =>
                /\ result.kind = "ok"
                /\ result.val = Len(HeaderBlock(pairs))
                /\ mapping = BlockRead(call.given, pairs)
                /\ input.data = Drop(call.stream.data, Len(HeaderBlock(pairs)))

C21_Witness ==
    /\ HeadersReturned
    /\ result.kind = "ok"
    /\ call.given # EmptyMap
    /\ input.data = <<120>>
    /\ \E pairs \in PairLists :
           /\ Len(pairs) = 2
           /\ pairs[1][1] = pairs[2][1]
           /\ pairs[1][2] # pairs[2][2]
           /\ pairs[1][1] \in DOMAIN call.given
           /\ IsPrefix(HeaderBlock(pairs), call.stream.data)
           /\ mapping[pairs[1][1]] = pairs[2][2]

\* Where the line of byte i begins: after the last LF before it.
LineStart(d, i) ==
    LET ends == {j \in 1..(i - 1) : d[j] = LF}
    IN  IF ends = {} THEN 1 ELSE 1 + (CHOOSE j \in ends : \A k \in ends : k <= j)

\* A colon after the colon of its line: a colon outside the name.
ColonMisplaced(d, i) ==
    d[i] = Colon /\ \E j \in LineStart(d, i)..(i - 1) : d[j] = Colon

\* A space anywhere but right after the colon that ends the name.
SpaceMisplaced(d, i) ==
    d[i] = SP /\ ~(i > LineStart(d, i) /\ d[i - 1] = Colon /\ ~ColonMisplaced(d, i - 1))

\* A CR that a byte other than LF follows.
CrMisplaced(d, i) == d[i] = CR /\ i < Len(d) /\ d[i + 1] # LF

\* Where the empty line that ends the block ends; 0 when there is none.
BlockEnd(d) ==
    LET ends == {i \in 2..Len(d) : d[i] = LF /\ d[i - 1] = CR /\ (i = 2 \/ d[i - 2] = LF)}
    IN  IF ends = {} THEN 0 ELSE CHOOSE i \in ends : \A j \in ends : i <= j

\* The bytes of the block that are misplaced.
Misplaced(d) ==
    {i \in 1..Len(d) :
        /\ BlockEnd(d) = 0 \/ i < BlockEnd(d)
        /\ ColonMisplaced(d, i) \/ SpaceMisplaced(d, i) \/ CrMisplaced(d, i)}

\* C22: read_headers (no limit) returns InvalidData on a block with a
\* misplaced byte: a colon outside the name, a space that does not follow
\* the colon of its line, a CR that a byte other than LF follows.
C22_MisplacedIsInvalidData ==
    (HeadersReturned /\ ~call.limit.some) =>
        (Misplaced(call.stream.data) # {} =>
            (result.kind = "err" /\ result.err = "InvalidData"))

\* C23: Body::read and Relay::relay take the chunked path when the map's
\* Transfer-Encoding contains "chunked", whether Content-Length is there or
\* not; else the sized path, with its length, when Content-Length is there
\* and is an unsigned number; else they return InvalidHeader("Content-Length")
\* and have read nothing and left the entity as it was.
C23_Step ==
    (call = NoCall /\ call' # NoCall) =>
        LET length == Get(mapping, ContentLength)
            encoding == Get(mapping, TransferEncoding)
        IN  IF encoding.some /\ Contains(encoding.v, Chunked)
            THEN call'.op \in {"read_chunked", "relay_chunked"}
            ELSE IF length.some /\ ParseUsize(length.v).ok
            THEN /\ call'.op \in {"read_sized", "relay_sized"}
                 /\ call'.length = ParseUsize(length.v).v
            ELSE /\ call'.op \in {"read", "relay"}
                 /\ result'.kind = "err"
                 /\ result'.err = "InvalidHeader(Content-Length)"
                 /\ input' = call'.stream
                 /\ body' = body
                 /\ relay' = relay

C23_FramingFromHeaders == [][C23_Step]_vars

C23_Witness ==
    /\ Returned("read_chunked")
    /\ result.kind = "ok"
    /\ ContentLength \in DOMAIN mapping
    /\ TransferEncoding \in DOMAIN mapping
    /\ mapping[TransferEncoding] # Chunked
    /\ ParseUsize(mapping[ContentLength]).ok
    /\ Len(body.bytes) = MaxBody

\* The needle stands in the bytes: the bytes from some position on begin with it.
Occurs(bytes, needle) ==
    \E i \in 1..(Len(bytes) - Len(needle) + 1) :
        SubSeq(bytes, i, i + Len(needle) - 1) = needle

\* C24: has_sequence(bytes, needle), needle not empty, returns true when the
\* needle stands in the bytes as a run of adjacent bytes, and false when it
\* does not.
C24_FoundIffOccurs ==
    (entity = "Sequence" /\ scan.called /\ scan.needle # <<>>) =>
        (scan.found <=> Occurs(scan.bytes, scan.needle))

\* C26: when read_chunked_stream, and Body::read_chunked with it, has
\* returned success on a stream that begins with a well-formed chunked body,
\* it has taken the whole body off the stream, the "0\r\n\r\n" that ends it
\* included: what is left on the stream is what follows the body.
C26_TerminatorConsumed ==
    (entity = "Body" /\ Returned("read_chunked") /\ call.inner /\ result.kind = "ok") =>
        \A cs \in ChunkLists : IsPrefix(Encode(cs), call.stream.data) =>
            input.data = Drop(call.stream.data, Len(Encode(cs)))

\* C27: a call of relay_chunked_stream, with a ceiling or without, returns
\* in the end, success or an error, whatever the stream holds before it
\* ends: it neither loops for ever nor panics.
C27_RelayChunkedReturns ==
    (entity = "Relay" /\ frame.op = "relay_chunked")
        ~> (frame.op = "idle" /\ result.kind \in {"ok", "err"})

\* What the Relay held when the call that returned was made.
RelayLengthAtEntry == relay.length - (IF result.kind = "ok" THEN result.val ELSE 0)

\* The limit relay_chunked_stream was given by the call that returned: the
\* call went on to the stream (inner), so the subtraction did not panic.
RelayLimitAtEntry == RemainingLimit("release", relay.length_limit, RelayLengthAtEntry).limit

\* C25: what relay_chunked_stream and relay_sized_stream return and what
\* they have written is the same however the transport deals the bytes of
\* the input out to the reads: it is what they return and write on a
\* transport that hands over in one read all that it has.
C25_OutcomeWhateverTheReads ==
    (entity = "Relay" /\ call.inner
     /\ (Returned("relay_chunked") \/ Returned("relay_sized"))) =>
        LET whole == RelayInWholeReads(call.op, call.stream, RelayLimitAtEntry,
                                       call.length, 0, <<>>, <<>>)
        IN  /\ result = whole.res
            /\ output = whole.output

====
